---- MODULE Spec2Model ----
(***************************************************************************)
(* The upload-then-poll state machine of the ImageUploader component       *)
(* (src/frontend/image-resizer-frontend/src/ImageUploader.tsx, the polling *)
(* revision, lines 148-395).                                               *)
(*                                                                         *)
(* React state and the interval ref are the variables.  Every invocation   *)
(* of handleUpload that passes its preconditions is an asynchronous        *)
(* activation with its own closure (key, attempt); it lives in a slot.     *)
(* Every step of the event loop is one action: a user event, the           *)
(* resolution of an awaited request, an interval tick, the resolution of   *)
(* a poll request, the unmount cleanup.                                    *)
(***************************************************************************)
EXTENDS Integers, FiniteSets, Bags, TLC

\* ---------------------------------------------------------------- bounds
\* concurrent activations of handleUpload the model keeps (slots are reused)
MaxUploads == 2
\* how long an HTTP request may stay unanswered, counted in the events that
\* take time (an interval tick, a user action): a request is settled before
\* MaxLag of them have happened since it was issued; also the number of poll
\* requests the model keeps in flight
MaxLag == 2
\* ticks the model follows a timer that nothing stops any more: beyond
\* MAX_POLL_ATTEMPTS, or once its handle is lost from pollIntervalRef
MaxOverrun == 1

\* ------------------------------------------------------------- constants
POLL_INTERVAL_MS == 3000
MAX_POLL_ATTEMPTS == 15

Null == "null"
Slots == 1 .. MaxUploads
NoTimer == 0
AttemptCap == MAX_POLL_ATTEMPTS + MaxOverrun

Files == {"photo.jpg"}
Keys == {"abc123", "def456"}
Urls == {"https://store/a", "https://store/b"}
\* process.env values: unset, the placeholder of the template, a real value
ApiConfigValues == {"", "YOUR_API_GATEWAY_INVOKE_URL", "https://api"}
BucketConfigValues == {"", "https://your-destination-bucket-name.s3", "https://bucket"}

\* progress events of the transfer: loaded bytes and the optional total
\* (a total that is present is positive)
NoTotal == 0
ProgressEvents == {<<1, 3>>, <<2, NoTotal>>}

\* outcomes of an HTTP request
Found(u) == [kind |-> "found", url |-> u]
NotFound == [kind |-> "404", url |-> Null]
ServerError == [kind |-> "500", url |-> Null]
NonAxiosError == [kind |-> "exception", url |-> Null]
GetOutcomes == {Found(u) : u \in Urls} \cup {NotFound, ServerError, NonAxiosError}

\* messages
Status(m) == [msg |-> m, attempt |-> 0]
Processing(n) == [msg |-> "Processing...", attempt |-> n]

VARIABLES
  API_GATEWAY_URL, DESTINATION_BUCKET_BASE_URL,
  mounted,
  selectedFile, uploadProgress, isUploading, errorMessage, processedImageUrl,
  statusMessage,
  pollIntervalRef,
  pc, key, attempt, timer,
  requests,
  waited,
  cancelled

config == <<API_GATEWAY_URL, DESTINATION_BUCKET_BASE_URL>>
ui == <<selectedFile, uploadProgress, isUploading, errorMessage, processedImageUrl, statusMessage>>
closures == <<pc, key, attempt>>
vars == <<config, mounted, ui, pollIntervalRef, closures, timer, requests, waited, cancelled>>

\* ------------------------------------------------------------- messages
MsgNoFile == "Please select a file first."
MsgNoApi == "Frontend is not configured with API Gateway URL."
MsgNoBucket == "Frontend is not configured with Destination Bucket URL."
MsgTimeout == "Processing timed out or failed. Please try again."
MsgPollError == "Error retrieving processed image: <message>"
MsgGetNotFound == "Processed image not found yet. Try refreshing shortly."
MsgGetError == "<message of the failed request>"
MsgUploadFailed == "Upload failed."

\* ------------------------------------------------------------- helpers
\* a state setter of an unmounted component does nothing
St(old, new) == IF mounted THEN new ELSE old

\* useEffect(..., [processedImageUrl, errorMessage]): runs after a render in
\* which a dependency changed, and then clears isUploading when either is set
\* (UseEffectIsUploadingAbsent: the component without this effect)
UseEffectIsUploadingAbsent(isUp, url, err) == isUp
UseEffectIsUploading(isUp, url, err) ==
  IF (url # processedImageUrl \/ err # errorMessage) /\ (url # Null \/ err # Null)
  THEN FALSE ELSE isUp

\* clearInterval(h)
ClearInterval(tm, h) == [i \in Slots |-> IF i = h /\ tm[i] = "live" THEN "cleared" ELSE tm[i]]

\* stopPolling(): the timers after it, and the ref after it
\* (StopPollingRefKept: stopPolling without line 192)
StopPollingTimers(tm, ref) == IF ref # NoTimer THEN ClearInterval(tm, ref) ELSE tm
StopPollingRefKept(ref) == ref
StopPollingRef(ref) == NoTimer

\* Math.round(loaded * 100 / (total ?? 1))
MathRound(num, den) == (2 * num + den) \div (2 * den)
PercentCompleted(ev) == MathRound(ev[1] * 100, IF ev[2] = NoTotal THEN 1 ELSE ev[2])

\* the config checks of handleUpload (ApiConfiguredUnlessEmpty: the test of
\* line 243 without its comparison with the template's placeholder)
ApiConfiguredUnlessEmpty(v) == v # ""
ApiConfigured(v) == v # "" /\ v # "YOUR_API_GATEWAY_INVOKE_URL"
BucketConfigured(v) == v # "" /\ v # "https://your-destination-bucket-name.s3"

\* ++attempt
IncAttempt(a) == a + 1

\* attempt >= MAX_POLL_ATTEMPTS, the test of the catch handler of
\* pollForProcessedImage on its own parameter
MaxAttemptsReached(att) == att >= MAX_POLL_ATTEMPTS

\* the catch handler of pollForProcessedImage: the error message it sets,
\* Null when it lets the interval run for the next attempt
\* (PollCatchMessageKindFirst: the two tests of lines 212 and 217 in the other order)
PollCatchMessageKindFirst(reached, out) ==
  IF out.kind = "500" THEN MsgPollError
  ELSE IF reached THEN MsgTimeout
  ELSE Null
PollCatchMessage(reached, out) ==
  IF reached THEN MsgTimeout
  ELSE IF out.kind = "500" THEN MsgPollError
  ELSE Null

\* the catch handler of the awaited GET in handleUpload
GetCatchMessage(out) == IF out.kind = "404" THEN MsgGetNotFound ELSE MsgGetError

\* the request pollForProcessedImage(key, attempt) issues for the activation in slot i
\* (of its parameter attempt the handlers read only the test against
\* MAX_POLL_ATTEMPTS, which the request carries as `last`; slot 0: the
\* activation has been released; stale: it was cancelled; age: the ticks and
\* user actions since the request was issued)
Released == 0
PollRequest(i, k, att, c) ==
  [slot |-> i, key |-> k, last |-> MaxAttemptsReached(att), stale |-> c, age |-> 0]

AddRequest(b, r) == b (+) SetToBag({r})
RemoveRequest(b, r) == b (-) SetToBag({r})
RECURSIVE SumCopies(_, _)
SumCopies(b, S) ==
  IF S = {} THEN 0 ELSE LET r == CHOOSE x \in S : TRUE IN b[r] + SumCopies(b, S \ {r})
\* the bag of F(r) for the requests r of bag b
MapRequests(b, F(_)) ==
  LET from == [r \in DOMAIN b |-> F(r)]
  IN [n \in {from[r] : r \in DOMAIN b} |-> SumCopies(b, {r \in DOMAIN b : from[r] = n})]
\* a cancellation makes every request in flight a stale one
StaleOf(r) == [r EXCEPT !.stale = TRUE]
MarkStale(b) == MapRequests(b, StaleOf)
\* an interval tick or a user action: time passes for the requests in flight
OlderOf(r) == [r EXCEPT !.age = @ + 1]
Age(b) == MapRequests(b, OlderOf)
Awaiting(i) == pc[i] \in {"awaitUrl", "awaitPut", "awaitGet"}
\* every request in flight may stay unanswered for one more tick or user action
MayTick ==
  /\ \A r \in BagToSet(requests) : r.age + 1 < MaxLag
  /\ \A i \in Slots : Awaiting(i) => waited[i] + 1 < MaxLag
\* how long the awaited requests have been waiting, after one more tick or
\* user action
Waited == [i \in Slots |-> IF Awaiting(i) THEN waited[i] + 1 ELSE waited[i]]
\* the model keeps at most MaxLag requests in flight
MayRequest == BagCardinality(requests) < MaxLag

IsFree(i) == pc[i] = "free"

\* the activations a cancellation (new file, new upload, unmount) cancels
CancelAll == [i \in Slots |-> ~IsFree(i)]

\* A timer whose handle is no longer in pollIntervalRef is lost: nothing can
\* clear it.  The model follows it for MaxOverrun ticks and then leaves it.
LostTimers(a, t, r) ==
  [i \in Slots |-> IF t[i] = "live" /\ r # i /\ a[i] > MaxOverrun THEN "lost" ELSE t[i]]

\* The closures, timers and the ref after a step.  An activation that has
\* returned and whose timer is not followed any more is released; the
\* activations that remain keep the first slots, oldest first, and an
\* activation that starts (start = TRUE: handleUpload passed its checks) takes
\* the next one.  What nothing reads any more is forgotten: the closure
\* variables of a timer that is not live, the waiting time of a settled request.
Commit(p0, k0, a0, t0, r0, c0, q0, w0, start) ==
  \E p \in {p0}, k \in {k0}, a \in {a0}, t \in {t0}, r \in {r0}, c \in {c0}, q \in {q0}, w \in {w0} :
  \E tm \in {LostTimers(a, t, r)} :
  \E gone \in {[i \in Slots |-> p[i] = "free" \/ (p[i] = "done" /\ tm[i] # "live" /\ r # i)]} :
  \E Rank \in {[i \in Slots |-> Cardinality({j \in Slots : j <= i /\ ~gone[j]})]} :
  \E kept \in {Cardinality({j \in Slots : ~gone[j]})} :
  \E At \in {[n \in Slots |-> IF n <= kept THEN CHOOSE i \in Slots : ~gone[i] /\ Rank[i] = n
                                ELSE n]} :
  LET dead(i) == tm[i] \in {"cleared", "lost"}
      Moved(x) == IF x.slot = Released THEN x
                  ELSE IF gone[x.slot] THEN [x EXCEPT !.slot = Released]
                  ELSE [x EXCEPT !.slot = Rank[x.slot]]
  IN
  /\ start => kept < MaxUploads
  /\ requests' = MapRequests(q, Moved)
  /\ waited' = [n \in Slots |-> IF n <= kept /\ p[At[n]] \in {"awaitUrl", "awaitPut", "awaitGet"}
                                  THEN w[At[n]] ELSE 0]
  /\ pc' = [n \in Slots |-> IF n <= kept THEN p[At[n]]
                              ELSE IF start /\ n = kept + 1 THEN "awaitUrl" ELSE "free"]
  /\ key' = [n \in Slots |-> IF n <= kept /\ ~dead(At[n]) THEN k[At[n]] ELSE Null]
  /\ attempt' = [n \in Slots |-> IF n <= kept /\ ~dead(At[n]) THEN a[At[n]] ELSE 0]
  /\ timer' = [n \in Slots |-> IF n <= kept THEN tm[At[n]] ELSE "none"]
  /\ cancelled' = [n \in Slots |-> IF n <= kept THEN c[At[n]] ELSE FALSE]
  /\ pollIntervalRef' = IF r = NoTimer THEN NoTimer ELSE Rank[r]

\* --------------------------------------------------------------- Init
Init ==
  /\ API_GATEWAY_URL \in ApiConfigValues
  /\ DESTINATION_BUCKET_BASE_URL \in BucketConfigValues
  /\ mounted = TRUE
  /\ selectedFile = Null
  /\ uploadProgress = 0
  /\ isUploading = FALSE
  /\ errorMessage = Null
  /\ processedImageUrl = Null
  /\ statusMessage = Status("")
  /\ pollIntervalRef = NoTimer
  /\ pc = [i \in Slots |-> "free"]
  /\ key = [i \in Slots |-> Null]
  /\ attempt = [i \in Slots |-> 0]
  /\ timer = [i \in Slots |-> "none"]
  /\ requests = EmptyBag
  /\ waited = [i \in Slots |-> 0]
  /\ cancelled = [i \in Slots |-> FALSE]

\* ------------------------------------------------------------ actions
\* handleFileChange (the input is disabled while isUploading)
handleFileChange(f) ==
  /\ mounted /\ ~isUploading
  /\ IF f = Null
     THEN UNCHANGED vars
     ELSE /\ MayTick
          /\ selectedFile' = f
          /\ errorMessage' = Null
          /\ processedImageUrl' = Null
          /\ uploadProgress' = 0
          /\ statusMessage' = Status("")
          /\ isUploading' = UseEffectIsUploading(isUploading, Null, Null)
          /\ Commit(pc, key, attempt, StopPollingTimers(timer, pollIntervalRef),
                    StopPollingRef(pollIntervalRef), CancelAll, Age(MarkStale(requests)), Waited, FALSE)
          /\ UNCHANGED <<config, mounted>>

\* handleUpload up to its first await
handleUploadBody ==
  IF selectedFile = Null THEN
    /\ errorMessage' = MsgNoFile
    /\ isUploading' = UseEffectIsUploading(isUploading, processedImageUrl, MsgNoFile)
    /\ UNCHANGED <<config, mounted, selectedFile, uploadProgress, processedImageUrl,
                   statusMessage, pollIntervalRef, closures, timer, requests, waited,
                   cancelled>>
  ELSE IF ~ApiConfigured(API_GATEWAY_URL) THEN
    /\ errorMessage' = MsgNoApi
    /\ isUploading' = UseEffectIsUploading(isUploading, processedImageUrl, MsgNoApi)
    /\ UNCHANGED <<config, mounted, selectedFile, uploadProgress, processedImageUrl,
                   statusMessage, pollIntervalRef, closures, timer, requests, waited,
                   cancelled>>
  ELSE IF ~BucketConfigured(DESTINATION_BUCKET_BASE_URL) THEN
    /\ errorMessage' = MsgNoBucket
    /\ isUploading' = UseEffectIsUploading(isUploading, processedImageUrl, MsgNoBucket)
    /\ UNCHANGED <<config, mounted, selectedFile, uploadProgress, processedImageUrl,
                   statusMessage, pollIntervalRef, closures, timer, requests, waited,
                   cancelled>>
  ELSE
    /\ MayTick
    /\ isUploading' = UseEffectIsUploading(TRUE, Null, Null)
    /\ errorMessage' = Null
    /\ processedImageUrl' = Null
    /\ uploadProgress' = 0
    /\ statusMessage' = Status("Getting upload URL...")
    /\ Commit(pc, key, attempt, StopPollingTimers(timer, pollIntervalRef),
              StopPollingRef(pollIntervalRef), CancelAll, Age(MarkStale(requests)), Waited, TRUE)
    /\ UNCHANGED <<config, mounted, selectedFile>>

\* a click on the button (disabled while no file is selected or isUploading)
handleUpload ==
  /\ mounted /\ selectedFile # Null /\ ~isUploading
  /\ handleUploadBody

\* the catch block of handleUpload (a failed upload-URL request or transfer)
UploadCatch(i) ==
  /\ errorMessage' = St(errorMessage, MsgUploadFailed)
  /\ statusMessage' = St(statusMessage, Status(""))
  /\ isUploading' = St(isUploading, FALSE)
  /\ Commit([pc EXCEPT ![i] = "done"], key, attempt,
            StopPollingTimers(timer, pollIntervalRef), StopPollingRef(pollIntervalRef),
            cancelled, requests, waited, FALSE)
  /\ UNCHANGED <<config, mounted, selectedFile, uploadProgress, processedImageUrl>>

\* await axios.post(.../generate-upload-url) settles
UploadUrlResponse(i, ok, k) ==
  /\ pc[i] = "awaitUrl"
  /\ IF ok
     THEN /\ statusMessage' = St(statusMessage, Status("Uploading..."))
          /\ Commit([pc EXCEPT ![i] = "awaitPut"], [key EXCEPT ![i] = k], attempt,
                    timer, pollIntervalRef, cancelled, requests, [waited EXCEPT ![i] = 0], FALSE)
          /\ UNCHANGED <<config, mounted, selectedFile, uploadProgress, isUploading,
                         errorMessage, processedImageUrl>>
     ELSE UploadCatch(i)

\* onUploadProgress
onUploadProgress(i, ev) ==
  /\ pc[i] = "awaitPut"
  /\ uploadProgress' = St(uploadProgress, PercentCompleted(ev))
  /\ UNCHANGED <<config, mounted, selectedFile, isUploading, errorMessage,
                 processedImageUrl, statusMessage, pollIntervalRef, closures, timer,
                 requests, waited, cancelled>>

\* await axios.put(uploadUrl, ...) settles; on success polling starts and the
\* handler goes on to await its own GET of the processed URL
PutResponse(i, ok) ==
  /\ pc[i] = "awaitPut"
  /\ IF ok
     THEN /\ MayRequest
          /\ statusMessage' = St(statusMessage, Processing(IncAttempt(0)))
          /\ Commit([pc EXCEPT ![i] = "awaitGet"], key, [attempt EXCEPT ![i] = IncAttempt(0)],
                    [timer EXCEPT ![i] = "live"], i, cancelled,
                    AddRequest(requests, PollRequest(i, key[i], IncAttempt(0), cancelled[i])),
                    [waited EXCEPT ![i] = 0], FALSE)
          /\ UNCHANGED <<config, mounted, selectedFile, uploadProgress, isUploading,
                         errorMessage, processedImageUrl>>
     ELSE UploadCatch(i)

\* the interval callback: pollForProcessedImage(key, ++attempt)
IntervalTick(i) ==
  /\ timer[i] = "live"
  /\ attempt[i] < AttemptCap
  /\ MayTick /\ MayRequest
  /\ statusMessage' = St(statusMessage, Processing(IncAttempt(attempt[i])))
  /\ Commit(pc, key, [attempt EXCEPT ![i] = IncAttempt(attempt[i])], timer, pollIntervalRef,
            cancelled,
            AddRequest(Age(requests), PollRequest(i, key[i], IncAttempt(attempt[i]), cancelled[i])),
            Waited, FALSE)
  /\ UNCHANGED <<config, mounted, selectedFile, uploadProgress, isUploading,
                 errorMessage, processedImageUrl>>

\* the .then / .catch of the axios.get in pollForProcessedImage
PollResponse(r, out) ==
  /\ r \in BagToSet(requests)
  /\ LET msg == PollCatchMessage(r.last, out)
         stop == out.kind = "found" \/ msg # Null
         url == IF out.kind = "found" THEN St(processedImageUrl, out.url) ELSE processedImageUrl
         err == IF out.kind # "found" /\ msg # Null THEN St(errorMessage, msg) ELSE errorMessage
     IN /\ processedImageUrl' = url
        /\ errorMessage' = err
        /\ statusMessage' = IF out.kind = "found" THEN St(statusMessage, Status("Processing complete."))
                            ELSE IF msg # Null THEN St(statusMessage, Status(""))
                            ELSE statusMessage
        /\ isUploading' = UseEffectIsUploading(isUploading, url, err)
        /\ Commit(pc, key, attempt,
                  IF stop THEN StopPollingTimers(timer, pollIntervalRef) ELSE timer,
                  IF stop THEN StopPollingRef(pollIntervalRef) ELSE pollIntervalRef,
                  cancelled, RemoveRequest(requests, r), waited, FALSE)
  /\ UNCHANGED <<config, mounted, selectedFile, uploadProgress>>

\* the awaited axios.get at the end of handleUpload settles
GetResponse(i, out) ==
  /\ pc[i] = "awaitGet"
  /\ LET url == IF out.kind = "found" THEN St(processedImageUrl, out.url) ELSE processedImageUrl
         err == IF out.kind # "found" THEN St(errorMessage, GetCatchMessage(out)) ELSE errorMessage
     IN /\ processedImageUrl' = url
        /\ errorMessage' = err
        /\ statusMessage' = St(statusMessage, IF out.kind = "found" THEN Status("Processing complete.")
                                              ELSE Status(""))
        /\ isUploading' = UseEffectIsUploading(isUploading, url, err)
  /\ Commit([pc EXCEPT ![i] = "done"], key, attempt, timer, pollIntervalRef, cancelled,
            requests, waited, FALSE)
  /\ UNCHANGED <<config, mounted, selectedFile, uploadProgress>>

\* the cleanup of the mount effect; the component's state is discarded
Unmount ==
  /\ mounted
  /\ mounted' = FALSE
  /\ selectedFile' = Null
  /\ uploadProgress' = 0
  /\ isUploading' = FALSE
  /\ errorMessage' = Null
  /\ processedImageUrl' = Null
  /\ statusMessage' = Status("")
  /\ Commit(pc, key, attempt,
            IF pollIntervalRef # NoTimer THEN ClearInterval(timer, pollIntervalRef) ELSE timer,
            pollIntervalRef, CancelAll, MarkStale(requests), waited, FALSE)
  /\ UNCHANGED config

Next ==
  \/ \E f \in Files \cup {Null} : handleFileChange(f)
  \/ handleUpload
  \/ \E i \in Slots, ok \in BOOLEAN, k \in Keys : UploadUrlResponse(i, ok, k)
  \/ \E i \in Slots, ev \in ProgressEvents : onUploadProgress(i, ev)
  \/ \E i \in Slots, ok \in BOOLEAN : PutResponse(i, ok)
  \/ \E i \in Slots : IntervalTick(i)
  \/ \E r \in BagToSet(requests), out \in GetOutcomes : PollResponse(r, out)
  \/ \E i \in Slots, out \in GetOutcomes : GetResponse(i, out)
  \/ Unmount

Spec == Init /\ [][Next]_vars

\* handleUpload invoked without the button's gating (the handler itself tests
\* only selectedFile and the two configuration values)
handleUploadCall ==
  /\ mounted
  /\ handleUploadBody

NextApi ==
  \/ Next
  \/ handleUploadCall

SpecApi == Init /\ [][NextApi]_vars

\* ------------------------------------------------------------- claims
\* timers that still fire
LiveTimers(tm) == {i \in Slots : tm[i] \in {"live", "lost"}}

\* C1: the attempt numbers of one poll cycle never exceed MAX_POLL_ATTEMPTS:
\* no poll request with attempt MAX_POLL_ATTEMPTS + 1 is issued, whatever the
\* timing of the responses.
C1_AttemptWithinBudget ==
  \A i \in Slots : attempt[i] <= MAX_POLL_ATTEMPTS

\* C2: when the not-found response to attempt MAX_POLL_ATTEMPTS of the current
\* cycle is handled, the poller is TimedOut: the error message is the timeout
\* message, processedImageUrl is unset and pollIntervalRef is cleared.
C2_TimedOutAfterMaxNotFound ==
  [][\A r \in BagToSet(requests) :
       (mounted /\ r.last /\ ~r.stale /\ PollResponse(r, NotFound))
       => /\ errorMessage' = MsgTimeout
          /\ processedImageUrl' = Null
          /\ pollIntervalRef' = NoTimer]_vars

\* C3: when a poll of the current cycle fails with a status other than 404 at
\* an attempt below MAX_POLL_ATTEMPTS, the error message is set at once and the
\* timer of the cycle is stopped, so that no further attempt is made.
C3_FailureStopsPolling ==
  [][\A r \in BagToSet(requests) :
       (mounted /\ ~r.last /\ ~r.stale /\ PollResponse(r, ServerError))
       => /\ errorMessage' = MsgPollError
          /\ \A i \in Slots : ~cancelled'[i] => timer'[i] \notin {"live", "lost"}]_vars

\* C4: when a poll of the current cycle answers Found(u), processedImageUrl is
\* exactly u, no error message is set and the timer of the cycle is stopped.
C4_FoundGivesReady ==
  [][\A r \in BagToSet(requests), u \in Urls :
       (mounted /\ ~r.stale /\ PollResponse(r, Found(u)))
       => /\ processedImageUrl' = u
          /\ errorMessage' = Null
          /\ \A i \in Slots : ~cancelled'[i] => timer'[i] \notin {"live", "lost"}]_vars

\* C5: a cancelled cycle (superseded by handleFileChange, by a new handleUpload
\* or by unmount) has no interval timer: none remains and none is created later.
C5_NoTimerAfterCancel ==
  \A i \in Slots : cancelled[i] => timer[i] \notin {"live", "lost"}

\* C6: the response to a poll request of a cancelled cycle is discarded: it
\* changes none of processedImageUrl, errorMessage, statusMessage and the
\* interval handle.
C6_StaleResponseDiscarded ==
  [][\A r \in BagToSet(requests), out \in GetOutcomes :
       (mounted /\ r.stale /\ PollResponse(r, out))
       => UNCHANGED <<processedImageUrl, errorMessage, statusMessage, pollIntervalRef>>]_vars

\* C7: at most one interval timer is live at any time, and it is the one whose
\* handle is in pollIntervalRef.
C7_OnlyTimerIsInRef ==
  \A i \in Slots : timer[i] \in {"live", "lost"} => pollIntervalRef = i

\* C8: the Outcome is exactly one of Pending, Ready and Failed: processedImageUrl
\* and errorMessage are never both set.
C8_OutcomeExclusive ==
  ~(processedImageUrl # Null /\ errorMessage # Null)

\* C9: handleUpload called with no selected file, or with the API or bucket
\* configuration missing or left at its placeholder, fails at once: it sets the
\* error message, issues no network call, creates no timer and leaves
\* selectedFile, uploadProgress and processedImageUrl unchanged.
C9_PreconditionFailure ==
  [][(/\ mounted
      /\ \/ selectedFile = Null
         \/ API_GATEWAY_URL \in {"", "YOUR_API_GATEWAY_INVOKE_URL"}
         \/ DESTINATION_BUCKET_BASE_URL \in {"", "https://your-destination-bucket-name.s3"}
      /\ handleUploadBody)
     => /\ errorMessage' \in {MsgNoFile, MsgNoApi, MsgNoBucket}
        /\ UNCHANGED <<selectedFile, uploadProgress, processedImageUrl>>
        /\ UNCHANGED <<pc, requests, timer, pollIntervalRef>>]_vars

C9_Witness ==
  /\ errorMessage = MsgNoFile
  /\ selectedFile = Null
  /\ requests = EmptyBag
  /\ \A i \in Slots : IsFree(i)

\* C10: when the upload-URL request or the byte transfer fails, handleUpload
\* ends with the error message set, issues no poll request, and no interval
\* timer exists afterwards.
C10_UploadFailureFails ==
  [][\A i \in Slots :
       (mounted /\ ((\E k \in Keys : UploadUrlResponse(i, FALSE, k)) \/ PutResponse(i, FALSE)))
       => /\ errorMessage' = MsgUploadFailed
          /\ ~isUploading'
          /\ BagCardinality(requests') = BagCardinality(requests)
          /\ pollIntervalRef' = NoTimer
          /\ LiveTimers(timer') = {}]_vars

\* C11: after a successful transfer isUploading stays true while the poller
\* of the current cycle is Polling: it is never false while the interval timer
\* of the current cycle is live.
C11_UploadingWhilePolling ==
  \A i \in Slots :
    (mounted /\ ~cancelled[i] /\ timer[i] \in {"live", "lost"}) => isUploading

\* the cycles that are progressing: awaiting the upload URL, transferring, or
\* polling on a timer that still fires
Progressing == {i \in Slots : pc[i] \in {"awaitUrl", "awaitPut"} \/ timer[i] \in {"live", "lost"}}

\* C12: two upload+poll cycles never progress at the same time: a handleUpload
\* during a cycle in flight is rejected or cancels that cycle first.
C12_OneCycleInFlight ==
  mounted => Cardinality(Progressing) <= 1

\* C13: handleFileChange with a file replaces the selected file, clears
\* errorMessage and processedImageUrl, resets uploadProgress to 0, cancels any
\* active poll timer and issues no network request; with no file in the event
\* it leaves all state unchanged.
C13_FileChangeFrame ==
  [][/\ \A f \in Files :
          handleFileChange(f)
          => /\ selectedFile' = f
             /\ errorMessage' = Null
             /\ processedImageUrl' = Null
             /\ uploadProgress' = 0
             /\ pollIntervalRef' = NoTimer
             /\ BagCardinality(requests') = BagCardinality(requests)
             /\ LiveTimers(timer') = {}
     /\ handleFileChange(Null) => UNCHANGED vars]_vars

\* C14: uploadProgress is always an integer percentage in 0..100, also after a
\* progress event that carries no total.
C14_ProgressIsPercentage ==
  uploadProgress \in 0 .. 100

\* C15: polling stops permanently: no interval timer keeps firing with nothing
\* left that can stop it.  (clearInterval is only ever applied to the handle in
\* pollIntervalRef, so a timer that still fires after its handle has left
\* pollIntervalRef fires, and issues poll requests, for ever.)
C15_PollingStops ==
  \A i \in Slots : timer[i] # "lost"

\* the status requests in flight: the poll requests and the GETs awaited by
\* handleUpload
StatusRequests(q, p) == BagCardinality(q) + Cardinality({i \in Slots : p[i] = "awaitGet"})

\* C16: on a successful transfer handleUpload issues exactly one status
\* request, the first attempt, and creates the interval timer; every later
\* status request of the cycle is issued by an interval tick.
C16_BeginPolling ==
  [][\A i \in Slots :
       PutResponse(i, TRUE)
       => /\ StatusRequests(requests', pc') = StatusRequests(requests, pc) + 1
          /\ pollIntervalRef' # NoTimer]_vars

\* C17: a not-found (404) response to a status query while attempts remain is
\* recovered locally: it does not set errorMessage and does not end the cycle
\* (the interval handle stays as it is).
C17_NotFoundIsNotAnError ==
  [][/\ \A r \in BagToSet(requests) :
          (mounted /\ ~r.last /\ PollResponse(r, NotFound))
          => UNCHANGED <<errorMessage, pollIntervalRef>>
     /\ \A i \in Slots :
          (mounted /\ GetResponse(i, NotFound))
          => UNCHANGED <<errorMessage, pollIntervalRef>>]_vars

\* C18: stopPolling is idempotent and total: from any state it leaves
\* pollIntervalRef null with the timer it held cleared and every other timer
\* as it was; with no timer held it changes nothing; a second call changes
\* nothing more.
C18_StopPollingIdempotent ==
  LET once == StopPollingTimers(timer, pollIntervalRef)
      ref == StopPollingRef(pollIntervalRef)
  IN /\ ref = NoTimer
     /\ pollIntervalRef # NoTimer => once[pollIntervalRef] # "live"
     /\ \A i \in Slots \ {pollIntervalRef} : once[i] = timer[i]
     /\ pollIntervalRef = NoTimer => (once = timer /\ ref = pollIntervalRef)
     /\ StopPollingTimers(once, ref) = once
     /\ StopPollingRef(ref) = ref

C18_Witness ==
  /\ mounted
  /\ pollIntervalRef = NoTimer
  /\ \E i \in Slots : timer[i] = "cleared"

ResponsesArrive ==
  /\ \A i \in Slots :
       /\ WF_vars(\E ok \in BOOLEAN, k \in Keys : UploadUrlResponse(i, ok, k))
       /\ WF_vars(\E ok \in BOOLEAN : PutResponse(i, ok))
       /\ WF_vars(\E out \in GetOutcomes : GetResponse(i, out))
  /\ WF_vars(\E r \in BagToSet(requests), out \in GetOutcomes : PollResponse(r, out))

SpecFair == Spec /\ ResponsesArrive

\* C20: the controls never stay locked: when every issued request eventually
\* receives a response, isUploading eventually becomes false again after every
\* handleUpload that passed its preconditions.
C20_ControlsUnlock ==
  isUploading ~> ~isUploading

C20_Witness ==
  /\ mounted
  /\ ~isUploading
  /\ processedImageUrl # Null
  /\ pollIntervalRef = NoTimer

====
